---- MODULE Spec2Model ----
(***************************************************************************)
(* Model of viz.py: the two text extractors (parse_status_string,          *)
(* parse_benchmark_output) and the part of main that consumes them.        *)
(* Texts are TLA+ strings; a character is a string of length one.          *)
(***************************************************************************)
EXTENDS Integers, Sequences, FiniteSets, TLC

VARIABLES text, pc, ret,
          benchmark_text1, benchmark_text2,
          status_data1, status_data2, df1, df2,
          rendered, error

vars == <<text, pc, ret, benchmark_text1, benchmark_text2,
          status_data1, status_data2, df1, df2, rendered, error>>

(* Longest input, in lines, that the extractor specifications enumerate. *)
MaxLines == 3

---------------------------------------------------------------------------
(* Characters and character classes of Python's re, restricted to ASCII. *)

Char(s, i) == SubSeq(s, i, i)

Digits == {"0", "1", "2", "3", "4", "5", "6", "7", "8", "9"}

Letters ==
  {"a", "b", "c", "d", "e", "f", "g", "h", "i", "j", "k", "l", "m",
   "n", "o", "p", "q", "r", "s", "t", "u", "v", "w", "x", "y", "z",
   "A", "B", "C", "D", "E", "F", "G", "H", "I", "J", "K", "L", "M",
   "N", "O", "P", "Q", "R", "S", "T", "U", "V", "W", "X", "Y", "Z"}

(* \w *)
WordChars == Letters \cup Digits \cup {"_"}

(* \s, and the characters str.strip() removes *)
Whitespace == {" ", "\t", "\n", "\r", "\f"}

(* [\d.] *)
DigitsDot == Digits \cup {"."}

(* [\w.-] *)
EndpointChars == WordChars \cup {".", "-"}

---------------------------------------------------------------------------
(* Regular expressions: a pattern is a sequence of elements, each a        *)
(* literal or a quantified character class, and the element ranges of its  *)
(* capture groups.                                                         *)

Lit(s)    == [lit |-> s,  cls |-> {},  min |-> 1, many |-> FALSE]
Plus(set) == [lit |-> "", cls |-> set, min |-> 1, many |-> TRUE]
Star(set) == [lit |-> "", cls |-> set, min |-> 0, many |-> TRUE]
Opt(set)  == [lit |-> "", cls |-> set, min |-> 0, many |-> FALSE]

(* Number of consecutive characters of s from position i that are in set,  *)
(* at most one when the quantifier is not repeating.                       *)
RECURSIVE Run(_, _, _, _)
Run(s, i, set, many) ==
  IF i > Len(s) \/ Char(s, i) \notin set THEN 0
  ELSE IF many THEN 1 + Run(s, i + 1, set, many) ELSE 1

LitAt(s, i, l) == i + Len(l) - 1 <= Len(s) /\ SubSeq(s, i, i + Len(l) - 1) = l

(* Backtracking match of elements k.. of the pattern at position i, greedy *)
(* quantifiers tried longest first.  The result is the sequence of element *)
(* boundaries <<start of k, start of k+1, ..., end of match>>, or <<>>     *)
(* when no way of matching exists.                                         *)
RECURSIVE MatchFrom(_, _, _, _), TryLen(_, _, _, _, _)
MatchFrom(elems, k, s, i) ==
  IF k > Len(elems) THEN <<i>>
  ELSE LET e == elems[k] IN
       IF e.lit # ""
       THEN IF LitAt(s, i, e.lit)
            THEN LET r == MatchFrom(elems, k + 1, s, i + Len(e.lit))
                 IN  IF r = <<>> THEN <<>> ELSE <<i>> \o r
            ELSE <<>>
       ELSE TryLen(elems, k, s, i, Run(s, i, e.cls, e.many))

TryLen(elems, k, s, i, n) ==
  IF n < elems[k].min THEN <<>>
  ELSE LET r == MatchFrom(elems, k + 1, s, i + n)
       IN  IF r # <<>> THEN <<i>> \o r
           ELSE TryLen(elems, k, s, i, n - 1)

(* Pattern.match(s): the match anchored at the start of s. *)
ReMatch(pattern, s) == MatchFrom(pattern.elems, 1, s, 1)

(* Pattern.search(s): the match at the leftmost position that has one. *)
ReSearch(pattern, s) ==
  LET starts == {i \in 1..Len(s) + 1 : MatchFrom(pattern.elems, 1, s, i) # <<>>}
  IN  IF starts = {} THEN <<>>
      ELSE MatchFrom(pattern.elems, 1, s,
                     CHOOSE i \in starts : \A j \in starts : i <= j)

(* match.group(g) *)
Group(pattern, s, m, g) ==
  SubSeq(s, m[pattern.groups[g][1]], m[pattern.groups[g][2] + 1] - 1)

---------------------------------------------------------------------------
(* Python values.  Every value is a record with a kind, so that a call's   *)
(* outcome (a value, None, or a raised exception) can be compared.         *)

None == [kind |-> "None"]

Raise(exc) == [kind |-> "raise", exc |-> exc]

IsRaise(v) == v.kind = "raise"

RECURSIVE LStrip(_, _)
LStrip(s, chars) ==
  IF Len(s) > 0 /\ Char(s, 1) \in chars
  THEN LStrip(SubSeq(s, 2, Len(s)), chars) ELSE s

RECURSIVE RStrip(_, _)
RStrip(s, chars) ==
  IF Len(s) > 0 /\ Char(s, Len(s)) \in chars
  THEN RStrip(SubSeq(s, 1, Len(s) - 1), chars) ELSE s

(* str.strip() *)
Strip(s) == LStrip(RStrip(s, Whitespace), Whitespace)

(* Position of the first occurrence of character c in s at or after i,     *)
(* Len(s) + 1 when there is none.                                          *)
Find(s, c, i) ==
  LET at == {j \in i..Len(s) : Char(s, j) = c}
  IN  IF at = {} THEN Len(s) + 1 ELSE CHOOSE j \in at : \A k \in at : j <= k

(* str.split(sep) for a one-character separator *)
RECURSIVE Split(_, _)
Split(s, sep) ==
  LET p == Find(s, sep, 1)
  IN  IF p > Len(s) THEN <<s>>
      ELSE <<SubSeq(s, 1, p - 1)>> \o Split(SubSeq(s, p + 1, Len(s)), sep)

(* sep.join(parts) *)
RECURSIVE Join(_, _)
Join(parts, sep) ==
  IF parts = <<>> THEN ""
  ELSE IF Len(parts) = 1 THEN parts[1]
  ELSE parts[1] \o sep \o Join(Tail(parts), sep)

CountChar(s, c) == Cardinality({i \in 1..Len(s) : Char(s, i) = c})

DigitVal(c) == CHOOSE n \in 0..9 : Char("0123456789", n + 1) = c

RECURSIVE DigitsVal(_)
DigitsVal(s) ==
  IF s = "" THEN 0
  ELSE 10 * DigitsVal(SubSeq(s, 1, Len(s) - 1)) + DigitVal(Char(s, Len(s)))

(* int(s), for s made of the characters the patterns can capture: a        *)
(* non-empty string of digits converts, anything else raises ValueError.   *)
ToInt(s) ==
  IF s # "" /\ \A i \in 1..Len(s) : Char(s, i) \in Digits
  THEN [kind |-> "int", val |-> DigitsVal(s)]
  ELSE Raise("ValueError")

(* float(s), for s made of an optional sign, digits and dots: at most one  *)
(* dot and at least one digit, otherwise ValueError.  The value is kept as *)
(* an exact decimal in canonical form (integer part without leading zeros, *)
(* fraction without trailing zeros), so that equal floats are equal        *)
(* records: float("50.000") = float("50.0") = float("50").  Inputs stay    *)
(* below the 15 significant digits a double holds exactly.                 *)
ToFloat(s) ==
  LET signed == Len(s) > 0 /\ Char(s, 1) \in {"-", "+"}
      t      == IF signed THEN SubSeq(s, 2, Len(s)) ELSE s
      d      == Find(t, ".", 1)
      ip     == LStrip(SubSeq(t, 1, d - 1), {"0"})
      fp     == RStrip(SubSeq(t, d + 1, Len(t)), {"0"})
  IN  IF /\ \A i \in 1..Len(t) : Char(t, i) \in DigitsDot
         /\ CountChar(t, ".") <= 1
         /\ \E i \in 1..Len(t) : Char(t, i) \in Digits
      THEN [kind |-> "float",
            neg  |-> signed /\ Char(s, 1) = "-" /\ (ip # "" \/ fp # ""),
            ip   |-> ip,
            fp   |-> fp]
      ELSE Raise("ValueError")

(* x >= 0 and x <= 100 on float values *)
NonNegative(x) == ~x.neg

AtMost100(x) == x.neg \/ Len(x.ip) < 3 \/ (x.ip = "100" /\ x.fp = "")

---------------------------------------------------------------------------
(* Module constants of viz.py *)

DEFAULT_DATA ==
  "clickhouse-systemlogs-eu-aiven-management-pavdmyt-test.avns.net:20001, queries: 30, QPS: 28.404, RPS: 17619645.884, MiB/s: 566.200, result RPS: 59733.005, result MiB/s: 14.272.\n\n0.000%          0.013 sec.\n10.000%         0.013 sec.\n20.000%         0.013 sec.\n30.000%         0.013 sec.\n40.000%         0.013 sec.\n50.000%         0.013 sec.\n60.000%         0.013 sec.\n70.000%         0.014 sec.\n80.000%         0.015 sec.\n90.000%         0.017 sec.\n95.000%         0.020 sec.\n99.000%         0.024 sec.\n99.900%         0.024 sec.\n99.990%         0.024 sec.\n"

STATUS_REGEX ==
  [elems |->
     << Plus(EndpointChars), Lit(":"), Plus(Digits),
        Lit(","), Star(Whitespace), Lit("queries:"), Star(Whitespace),
        Plus(Digits),
        Lit(","), Star(Whitespace), Lit("QPS:"), Star(Whitespace),
        Plus(DigitsDot),
        Lit(","), Star(Whitespace), Lit("RPS:"), Star(Whitespace),
        Plus(DigitsDot),
        Lit(","), Star(Whitespace), Lit("MiB/s:"), Star(Whitespace),
        Plus(DigitsDot),
        Lit(","), Star(Whitespace), Lit("result RPS:"), Star(Whitespace),
        Plus(DigitsDot),
        Lit(","), Star(Whitespace), Lit("result MiB/s:"), Star(Whitespace),
        Plus(DigitsDot) >>,
   groups |-> << <<1, 3>>, <<8, 8>>, <<13, 13>>, <<18, 18>>, <<23, 23>>,
                 <<28, 28>>, <<33, 33>> >>]

(* PERCENTILE_REGEX with the fraction of the latency optional, as it is   *)
(* for the percentile.                                                     *)
PERCENTILE_REGEX_OptionalFraction ==
  [elems |->
     << Plus(Digits), Opt({"."}), Star(Digits),
        Lit("%"), Plus(Whitespace),
        Plus(Digits), Opt({"."}), Star(Digits),
        Plus(Whitespace), Lit("sec") >>,
   groups |-> << <<1, 3>>, <<6, 8>> >>]

(* PERCENTILE_REGEX with a minus sign allowed before both numbers *)
PERCENTILE_REGEX_Signed ==
  [elems |->
     << Opt({"-"}), Plus(Digits), Opt({"."}), Star(Digits),
        Lit("%"), Plus(Whitespace),
        Opt({"-"}), Plus(Digits), Lit("."), Plus(Digits),
        Plus(Whitespace), Lit("sec") >>,
   groups |-> << <<1, 4>>, <<7, 10>> >>]

PERCENTILE_REGEX ==
  [elems |->
     << Plus(Digits), Opt({"."}), Star(Digits),
        Lit("%"), Plus(Whitespace),
        Plus(Digits), Lit("."), Plus(Digits),
        Plus(Whitespace), Lit("sec") >>,
   groups |-> << <<1, 3>>, <<6, 8>> >>]

KEY_PERCENTILES == <<ToFloat("50.0"), ToFloat("95.0"), ToFloat("99.0")>>

---------------------------------------------------------------------------
(* The extractors *)

(* The first exception among the conversions, in evaluation order, if any. *)
RECURSIVE FirstRaise(_)
FirstRaise(vals) ==
  IF vals = <<>> THEN None
  ELSE IF IsRaise(vals[1]) THEN vals[1] ELSE FirstRaise(Tail(vals))

(* parse_status_string without the test of status_match: group() on None  *)
(* raises AttributeError.                                                  *)
parse_status_string_Unchecked(t) ==
  LET status_match == ReSearch(STATUS_REGEX, t)
  IN  IF status_match # <<>>
      THEN [kind |-> "dict", endpoint |-> Group(STATUS_REGEX, t, status_match, 1)]
      ELSE Raise("AttributeError")

(* parse_status_string with STATUS_REGEX.match in place of .search *)
parse_status_string_Anchored(t) ==
  LET status_match == ReMatch(STATUS_REGEX, t)
  IN  IF status_match # <<>>
      THEN [kind |-> "dict", endpoint |-> Group(STATUS_REGEX, t, status_match, 1)]
      ELSE None

parse_status_string(t) ==
  LET status_match == ReSearch(STATUS_REGEX, t)
      group(g)     == Group(STATUS_REGEX, t, status_match, g)
  IN  IF status_match # <<>>
      THEN LET queries      == ToInt(group(2))
               qps          == ToFloat(group(3))
               rps          == ToFloat(group(4))
               mib_s        == ToFloat(group(5))
               result_rps   == ToFloat(group(6))
               result_mib_s == ToFloat(RStrip(group(7), {"."}))
               exc          == FirstRaise(<<queries, qps, rps, mib_s,
                                            result_rps, result_mib_s>>)
           IN  IF IsRaise(exc) THEN exc
               ELSE [kind         |-> "dict",
                     endpoint     |-> group(1),
                     queries      |-> queries,
                     qps          |-> qps,
                     rps          |-> rps,
                     mib_s        |-> mib_s,
                     result_rps   |-> result_rps,
                     result_mib_s |-> result_mib_s]
      ELSE None

(* pd.DataFrame(data): the rows in order; with no rows it has no columns. *)
DataFrame(data) == [kind |-> "DataFrame", rows |-> data]

(* The loop of parse_benchmark_output keeping one row per percentile *)
RECURSIVE ParseLines_Unique(_, _, _)
ParseLines_Unique(lines, k, data) ==
  IF k > Len(lines) THEN DataFrame(data)
  ELSE LET line  == lines[k]
           match == ReMatch(PERCENTILE_REGEX, line)
       IN  IF match # <<>>
           THEN LET percentile == ToFloat(Group(PERCENTILE_REGEX, line, match, 1))
                    latency    == ToFloat(Group(PERCENTILE_REGEX, line, match, 2))
                IN  IF \E i \in 1..Len(data) : data[i].percentile = percentile
                    THEN ParseLines_Unique(lines, k + 1, data)
                    ELSE ParseLines_Unique(lines, k + 1,
                           Append(data, [percentile |-> percentile,
                                         latency    |-> latency]))
           ELSE ParseLines_Unique(lines, k + 1, data)

(* The loop of parse_benchmark_output leaving at the first line that is no *)
(* row (break in place of skipping the line).                              *)
RECURSIVE ParseLines_Break(_, _, _)
ParseLines_Break(lines, k, data) ==
  IF k > Len(lines) THEN DataFrame(data)
  ELSE LET line  == lines[k]
           match == ReMatch(PERCENTILE_REGEX, line)
       IN  IF match # <<>>
           THEN ParseLines_Break(lines, k + 1,
                  Append(data,
                    [percentile |-> ToFloat(Group(PERCENTILE_REGEX, line, match, 1)),
                     latency    |-> ToFloat(Group(PERCENTILE_REGEX, line, match, 2))]))
           ELSE DataFrame(data)

(* The loop over lines of parse_benchmark_output: data after lines k.. *)
RECURSIVE ParseLines(_, _, _)
ParseLines(lines, k, data) ==
  IF k > Len(lines) THEN DataFrame(data)
  ELSE LET line  == lines[k]
           match == ReMatch(PERCENTILE_REGEX, line)
       IN  IF match # <<>>
           THEN LET percentile == ToFloat(Group(PERCENTILE_REGEX, line, match, 1))
                    latency    == ToFloat(Group(PERCENTILE_REGEX, line, match, 2))
                IN  IF IsRaise(percentile) THEN percentile
                    ELSE IF IsRaise(latency) THEN latency
                    ELSE ParseLines(lines, k + 1,
                           Append(data, [percentile |-> percentile,
                                         latency    |-> latency]))
           ELSE ParseLines(lines, k + 1, data)

parse_benchmark_output(t) ==
  LET lines == Split(Strip(t), "\n")
  IN  ParseLines(lines, 1, <<>>)


---------------------------------------------------------------------------
(* pandas: column access and the key-percentile lookup of main and         *)
(* create_summary_bar_chart.                                               *)

(* df[name]: a DataFrame built from no rows has no columns. *)
Column(df, name) ==
  IF df.rows = <<>> THEN Raise("KeyError")
  ELSE [kind |-> "Series", values |-> [i \in 1..Len(df.rows) |-> df.rows[i][name]]]

(* The lookup with .iloc[-1] *)
KeyLatency_Last(df, percentile) ==
  LET column   == Column(df, "percentile")
      selected == SelectSeq(df.rows, LAMBDA row : row.percentile = percentile)
  IN  IF IsRaise(column) THEN column
      ELSE IF selected = <<>> THEN Raise("IndexError")
      ELSE selected[Len(selected)].latency

(* df[df["percentile"] == percentile]["latency"].iloc[0] *)
KeyLatency(df, percentile) ==
  LET column   == Column(df, "percentile")
      selected == SelectSeq(df.rows, LAMBDA row : row.percentile = percentile)
  IN  IF IsRaise(column) THEN column
      ELSE IF selected = <<>> THEN Raise("IndexError")
      ELSE selected[1].latency

(* The three st.metric calls of one column of "Latency Statistics": the    *)
(* metrics shown before the first lookup that raises, and that exception.  *)
RECURSIVE LatencyMetrics(_, _, _, _)
LatencyMetrics(df, query, percentiles, shown) ==
  IF percentiles = <<>> THEN [shown |-> shown, exc |-> None]
  ELSE LET value == KeyLatency(df, percentiles[1])
       IN  IF IsRaise(value) THEN [shown |-> shown, exc |-> value]
           ELSE LatencyMetrics(df, query, Tail(percentiles),
                  Append(shown, [item       |-> "metric",
                                 query      |-> query,
                                 percentile |-> percentiles[1],
                                 value      |-> value]))

create_latency_distribution_chart(d1, d2) ==
  LET x1 == Column(d1, "percentile")
      y1 == Column(d1, "latency")
      x2 == Column(d2, "percentile")
      y2 == Column(d2, "latency")
      exc == FirstRaise(<<x1, y1, x2, y2>>)
  IN  IF IsRaise(exc) THEN exc
      ELSE [kind |-> "Figure", item |-> "latency_distribution_chart",
            traces |-> << <<x1.values, y1.values>>, <<x2.values, y2.values>> >>]

(* The loop of create_summary_bar_chart over KEY_PERCENTILES. *)
RECURSIVE SummaryBars(_, _, _, _)
SummaryBars(d1, d2, k, data) ==
  IF k > Len(KEY_PERCENTILES) THEN data
  ELSE LET percentile == KEY_PERCENTILES[k]
           q1 == KeyLatency(d1, percentile)
           q2 == KeyLatency(d2, percentile)
       IN  IF IsRaise(q1) THEN q1
           ELSE IF IsRaise(q2) THEN q2
           ELSE SummaryBars(d1, d2, k + 1,
                  Append(data, [percentile |-> percentile,
                                query1     |-> q1,
                                query2     |-> q2]))

create_summary_bar_chart(d1, d2) ==
  LET data == SummaryBars(d1, d2, 1, <<>>)
  IN  IF data # <<>> /\ DOMAIN data = {"kind", "exc"} THEN data
      ELSE [kind |-> "Figure", item |-> "summary_bar_chart", bars |-> data]

---------------------------------------------------------------------------
(* Inputs *)

BoundedSeq(S, n) == UNION {[1..k -> S] : k \in 0..n}

ExampleStatus ==
  "host.example:20001, queries: 30, QPS: 28.404, RPS: 17619645.884, MiB/s: 566.200, result RPS: 59733.005, result MiB/s: 14.272."

ShortStatus ==
  "h:1, queries: 1, QPS: 1, RPS: 1, MiB/s: 1, result RPS: 1, result MiB/s: 1."

(* Lines that texts given to parse_status_string are made of: status       *)
(* lines (with a host name or an IP address as endpoint, with and without  *)
(* the final period, with numbers such as "3." and ".5", with fields the   *)
(* character class [\d.] accepts that are no numbers), a status line cut   *)
(* off before its last number, one inside other text, a percentile row    *)
(* and the blank line.                                                     *)
StatusLineSet ==
  { ExampleStatus,
    "10.0.0.1:9000, queries: 7, QPS: 1.5, RPS: 2, MiB/s: 3., result RPS: .5, result MiB/s: 4",
    "db-1:1, queries: 1, QPS: 1.2.3, RPS: 1, MiB/s: 1, result RPS: 1, result MiB/s: 1.",
    "h:1, queries: 1, QPS: 1, RPS: 1, MiB/s: 1, result RPS: 1, result MiB/s:",
    ">> " \o ShortStatus \o " (done)",
    "50.000%   0.013 sec.",
    "" }

StatusTexts == {Join(ls, "\n") : ls \in BoundedSeq(StatusLineSet, MaxLines)}

(* Lines that texts given to parse_benchmark_output are made of. *)
PercentileLineSet ==
  { "50%   0.013 sec.",
    "50.000%    0.020 sec.",
    "99.990%    0.024 sec.",
    "150.% 0.1 secs",
    "  95.000%  0.020 sec.",
    "50% 0.01sec",
    "abc% 0.013 sec.",
    "50% 1 sec",
    "-5.0% 0.010 sec.",
    ShortStatus,
    "" }

PercentileTexts ==
  {DEFAULT_DATA} \cup
  {Join(ls, "\n") : ls \in BoundedSeq(PercentileLineSet, MaxLines)}

(* Contents of the two "Benchmark results" text areas of main. *)
MainTexts ==
  { DEFAULT_DATA,
    "",
    ShortStatus,
    "50.000% 0.013 sec.\n95.000% 0.020 sec.\n99.000% 0.024 sec.",
    ShortStatus \o "\n\n50.000% 0.013 sec.\n95.000% 0.020 sec.\n99.000% 0.024 sec.\n",
    ShortStatus \o "\n50% 0.010 sec.\n50.000% 0.020 sec.\n95% 0.030 sec.\n99% 0.040 sec.\n95.0% 0.050 sec.",
    ShortStatus \o "\n95.000% 0.020 sec.\n99.000% 0.024 sec.",
    ShortStatus \o "\n50.000% 0.013 sec.\n99.000% 0.024 sec.",
    ShortStatus \o "\n50.000% 0.013 sec.\n95.000% 0.020 sec.\n99.900% 0.024 sec.",
    "db-1:1, queries: 1, QPS: 1.2.3, RPS: 1, MiB/s: 1, result RPS: 1, result MiB/s: 1.\n50.000% 0.013 sec." }

---------------------------------------------------------------------------
(* State machines *)

Pending == [kind |-> "pending"]

NoFrame == DataFrame(<<>>)

MainIdle ==
  /\ benchmark_text1 = "" /\ benchmark_text2 = ""
  /\ status_data1 = None /\ status_data2 = None
  /\ df1 = NoFrame /\ df2 = NoFrame
  /\ rendered = <<>> /\ error = None

mainVars == <<benchmark_text1, benchmark_text2, status_data1, status_data2,
              df1, df2, rendered, error>>

(* One call of parse_status_string *)
InitStatus ==
  /\ text \in StatusTexts
  /\ pc = "call"
  /\ ret = Pending
  /\ MainIdle

CallParseStatusString ==
  /\ pc = "call"
  /\ ret' = parse_status_string(text)
  /\ pc' = "done"
  /\ UNCHANGED <<text, mainVars>>

NextStatus == CallParseStatusString

SpecStatus == InitStatus /\ [][NextStatus]_vars

(* One call of parse_benchmark_output *)
InitPercentile ==
  /\ text \in PercentileTexts
  /\ pc = "call"
  /\ ret = Pending
  /\ MainIdle

CallParseBenchmarkOutput ==
  /\ pc = "call"
  /\ ret' = parse_benchmark_output(text)
  /\ pc' = "done"
  /\ UNCHANGED <<text, mainVars>>

NextPercentile == CallParseBenchmarkOutput

SpecPercentile == InitPercentile /\ [][NextPercentile]_vars

(* One run of main, statement by statement.  pc is the statement to run    *)
(* next; an exception is kept in error and ends the run where it is        *)
(* raised.                                                                 *)
Init ==
  /\ text = "" /\ ret = Pending
  /\ benchmark_text1 \in MainTexts
  /\ benchmark_text2 \in MainTexts
  /\ status_data1 = None /\ status_data2 = None
  /\ df1 = NoFrame /\ df2 = NoFrame
  /\ rendered = <<>>
  /\ error = None
  /\ pc = "parse"

Running(stage) == pc = stage /\ error = None

(* lines 215-224 *)
ParseInputs ==
  /\ Running("parse")
  /\ IF benchmark_text1 # "" /\ benchmark_text2 # ""
     THEN LET s1 == parse_status_string(benchmark_text1)
              s2 == parse_status_string(benchmark_text2)
              d1 == parse_benchmark_output(benchmark_text1)
              d2 == parse_benchmark_output(benchmark_text2)
              exc == FirstRaise(<<s1, s2, d1, d2>>)
          IN  IF IsRaise(exc)
              THEN /\ error' = exc
                   /\ UNCHANGED <<pc, status_data1, status_data2, df1, df2>>
              ELSE /\ status_data1' = s1 /\ status_data2' = s2
                   /\ df1' = d1 /\ df2' = d2
                   /\ pc' = IF s1 # None /\ s2 # None THEN "info" ELSE "done"
                   /\ error' = None
     ELSE /\ pc' = "done"
          /\ UNCHANGED <<status_data1, status_data2, df1, df2, error>>
  /\ UNCHANGED <<text, ret, benchmark_text1, benchmark_text2, rendered>>

StatusPanel(query, status) ==
  [item |-> "status", query |-> query, endpoint |-> status.endpoint,
   queries |-> status.queries, qps |-> status.qps, rps |-> status.rps,
   mib_s |-> status.mib_s, result_rps |-> status.result_rps,
   result_mib_s |-> status.result_mib_s]

(* lines 225-253 *)
BenchmarkInformation ==
  /\ Running("info")
  /\ rendered' = rendered \o <<StatusPanel(1, status_data1),
                               StatusPanel(2, status_data2)>>
  /\ pc' = "performance_chart"
  /\ UNCHANGED <<text, ret, benchmark_text1, benchmark_text2,
                 status_data1, status_data2, df1, df2, error>>

(* lines 255-259 *)
PerformanceMetricsChart ==
  /\ Running("performance_chart")
  /\ rendered' = Append(rendered, [item |-> "performance_metrics_chart"])
  /\ pc' = "latency_chart"
  /\ UNCHANGED <<text, ret, benchmark_text1, benchmark_text2,
                 status_data1, status_data2, df1, df2, error>>

(* lines 261-264 *)
LatencyDistributionChart ==
  /\ Running("latency_chart")
  /\ LET fig == create_latency_distribution_chart(df1, df2)
     IN  IF IsRaise(fig)
         THEN error' = fig /\ UNCHANGED <<pc, rendered>>
         ELSE /\ rendered' = Append(rendered, [item |-> fig.item])
              /\ pc' = "statistics1"
              /\ error' = None
  /\ UNCHANGED <<text, ret, benchmark_text1, benchmark_text2,
                 status_data1, status_data2, df1, df2>>

StatisticsPercentiles == <<ToFloat("50.0"), ToFloat("95.0"), ToFloat("99.0")>>

Statistics(stage, query, df, next) ==
  /\ Running(stage)
  /\ LET r == LatencyMetrics(df, query, StatisticsPercentiles, <<>>)
     IN  /\ rendered' = rendered \o r.shown
         /\ IF IsRaise(r.exc)
            THEN error' = r.exc /\ UNCHANGED pc
            ELSE error' = None /\ pc' = next
  /\ UNCHANGED <<text, ret, benchmark_text1, benchmark_text2,
                 status_data1, status_data2, df1, df2>>

(* lines 270-283 *)
LatencyStatistics1 == Statistics("statistics1", 1, df1, "statistics2")

(* lines 285-298 *)
LatencyStatistics2 == Statistics("statistics2", 2, df2, "summary_chart")

(* lines 300-303 *)
SummaryBarChart ==
  /\ Running("summary_chart")
  /\ LET fig == create_summary_bar_chart(df1, df2)
     IN  IF IsRaise(fig)
         THEN error' = fig /\ UNCHANGED <<pc, rendered>>
         ELSE /\ rendered' = Append(rendered, [item |-> fig.item, bars |-> fig.bars])
              /\ pc' = "raw_data"
              /\ error' = None
  /\ UNCHANGED <<text, ret, benchmark_text1, benchmark_text2,
                 status_data1, status_data2, df1, df2>>

(* lines 305-313 *)
RawData ==
  /\ Running("raw_data")
  /\ rendered' = rendered \o <<[item |-> "dataframe", query |-> 1],
                               [item |-> "dataframe", query |-> 2]>>
  /\ pc' = "done"
  /\ UNCHANGED <<text, ret, benchmark_text1, benchmark_text2,
                 status_data1, status_data2, df1, df2, error>>

Next ==
  \/ ParseInputs
  \/ BenchmarkInformation
  \/ PerformanceMetricsChart
  \/ LatencyDistributionChart
  \/ LatencyStatistics1
  \/ LatencyStatistics2
  \/ SummaryBarChart
  \/ RawData

Spec == Init /\ [][Next]_vars


---------------------------------------------------------------------------
(* Properties *)

(* The set of positions where a match of elements k.. can end when it      *)
(* starts at one of the positions P: every way of matching is followed,    *)
(* in no order.                                                            *)
StepEnds(e, s, P) ==
  IF e.lit # ""
  THEN {i + Len(e.lit) : i \in {j \in P : LitAt(s, j, e.lit)}}
  ELSE UNION {{i + n : n \in e.min..Run(s, i, e.cls, e.many)} : i \in P}

RECURSIVE EndsFrom(_, _, _, _)
EndsFrom(elems, k, s, P) ==
  IF k > Len(elems) \/ P = {} THEN P
  ELSE EndsFrom(elems, k + 1, s, StepEnds(elems[k], s, P))

(* Some substring of s is in the language of the pattern. *)
SomeSubstringMatches(pattern, s) ==
  EndsFrom(pattern.elems, 1, s, 1..Len(s) + 1) # {}

Called == pc = "done" /\ ret # Pending

Lines(t) == Split(t, "\n")

(* C1: whenever the status pattern matches somewhere in the text,          *)
(* parse_status_string returns a record with all seven fields converted;   *)
(* the example line of the specification gives the record shown there.     *)
C1_MatchGivesRecord ==
  (Called /\ SomeSubstringMatches(STATUS_REGEX, text)) =>
     /\ ret.kind = "dict"
     /\ (text = ExampleStatus =>
           ret = [kind         |-> "dict",
                  endpoint     |-> "host.example:20001",
                  queries      |-> [kind |-> "int", val |-> 30],
                  qps          |-> ToFloat("28.404"),
                  rps          |-> ToFloat("17619645.884"),
                  mib_s        |-> ToFloat("566.2"),
                  result_rps   |-> ToFloat("59733.005"),
                  result_mib_s |-> ToFloat("14.272")])

(* C3: when no substring of the text matches the status pattern (the empty *)
(* text and a text holding only percentile rows included),                 *)
(* parse_status_string returns None and does not raise.                    *)
C3_NoMatchGivesNone ==
  (Called /\ ~SomeSubstringMatches(STATUS_REGEX, text)) => ret = None

C3_Witness ==
  /\ Called
  /\ text = "50.000%   0.013 sec.\n\n50.000%   0.013 sec."
  /\ ~SomeSubstringMatches(STATUS_REGEX, text)
  /\ ret = None

(* C4: every call of parse_status_string ends in a record or in None; no   *)
(* call raises, whatever the pattern's character classes accepted.         *)
C4_NeverRaises ==
  Called => ret.kind \in {"dict", "None"}

(* S begins with a status line: the pattern matches at its first character *)
BeginsWithStatus(s) == ReMatch(STATUS_REGEX, s) # <<>>

(* The text ends, but for whitespace, in a status line cut off right after *)
(* the label of its last field.                                            *)
EndsCutBeforeLastNumber(s) ==
  Len(s) + 1 \in EndsFrom(SubSeq(STATUS_REGEX.elems, 1, 32), 1, s, 1..Len(s) + 1)

(* The ways of writing the text as A, newline, S, newline, B with S one    *)
(* line that begins with a status line and A, B holding no status line.    *)
Surrounded(t) ==
  LET ls == Lines(t)
  IN  { [A |-> Join(SubSeq(ls, 1, i - 1), "\n"),
         S |-> ls[i],
         B |-> Join(SubSeq(ls, i + 1, Len(ls)), "\n")] :
        i \in { j \in 2..Len(ls) - 1 :
                  /\ BeginsWithStatus(ls[j])
                  /\ ~SomeSubstringMatches(STATUS_REGEX, Join(SubSeq(ls, 1, j - 1), "\n"))
                  /\ ~SomeSubstringMatches(STATUS_REGEX, Join(SubSeq(ls, j + 1, Len(ls)), "\n")) } }

(* C7 as stated: content before and after the status line, itself holding *)
(* no status line, never changes what parse_status_string returns.         *)
C7_SurroundingContentIgnored ==
  Called => \A w \in Surrounded(text) : ret = parse_status_string(w.S)

(* C7, amended: the same, unless A ends in a status line cut off before    *)
(* its last number and S begins with a digit or a period.                  *)
C7_SurroundingContentIgnoredUnlessCut ==
  Called =>
    \A w \in Surrounded(text) :
       ~(EndsCutBeforeLastNumber(w.A) /\ Char(w.S, 1) \in DigitsDot)
          => ret = parse_status_string(w.S)

C7_Witness ==
  /\ Called
  /\ text = "50.000%   0.013 sec.\n" \o ExampleStatus \o "\n50.000%   0.013 sec."
  /\ Surrounded(text) # {}
  /\ ret.kind = "dict"
  /\ ret.endpoint = "host.example:20001"


---------------------------------------------------------------------------
(* Properties of parse_benchmark_output *)

(* The lines parse_benchmark_output tests: those of the trimmed text. *)
TestedLines(t) == Split(Strip(t), "\n")

Recognized(line) == ReMatch(PERCENTILE_REGEX, line) # <<>>

RowOf(line) ==
  LET m == ReMatch(PERCENTILE_REGEX, line)
  IN  [percentile |-> ToFloat(Group(PERCENTILE_REGEX, line, m, 1)),
       latency    |-> ToFloat(Group(PERCENTILE_REGEX, line, m, 2))]

(* C2: the observations are, one for one and in the order of the lines,    *)
(* the rows of the lines that match the row pattern: nothing is dropped,   *)
(* merged or re-sorted, and no match gives no observation; DEFAULT_DATA    *)
(* gives 14 of them, from (0.0, 0.013) to (99.99, 0.024).                  *)
C2_OneObservationPerMatchingLine ==
  Called =>
    LET lines    == TestedLines(text)
        matching == {k \in 1..Len(lines) : Recognized(lines[k])}
    IN  /\ ret.kind = "DataFrame"
        /\ Len(ret.rows) = Cardinality(matching)
        /\ \A k \in matching :
             ret.rows[Cardinality({j \in matching : j <= k})] = RowOf(lines[k])
        /\ (text = DEFAULT_DATA =>
              /\ Len(ret.rows) = 14
              /\ ret.rows[1] = [percentile |-> ToFloat("0.0"),
                                latency    |-> ToFloat("0.013")]
              /\ ret.rows[14] = [percentile |-> ToFloat("99.99"),
                                 latency    |-> ToFloat("0.024")])

C2_Witness ==
  /\ Called
  /\ text = "99.990%    0.024 sec.\n" \o ShortStatus \o "\n50%   0.013 sec."
  /\ Len(ret.rows) = 2
  /\ ret.rows[1].percentile = ToFloat("99.99")
  /\ ret.rows[2].percentile = ToFloat("50")

AllIn(s, from, to, set) == \A i \in from..to : Char(s, i) \in set

(* digits, optionally followed by a period and optional further digits *)
IsPercentileNumber(s) ==
  /\ Len(s) >= 1
  /\ AllIn(s, 1, Len(s), DigitsDot)
  /\ Char(s, 1) \in Digits
  /\ CountChar(s, ".") <= 1

(* digits, a period, digits *)
IsLatencyNumber(s) ==
  /\ Len(s) >= 3
  /\ AllIn(s, 1, Len(s), DigitsDot)
  /\ Char(s, 1) \in Digits
  /\ Char(s, Len(s)) \in Digits
  /\ CountChar(s, ".") = 1

(* The line starts with a number, "%", whitespace, a number with a period  *)
(* and fraction digits, whitespace, "sec".                                 *)
IsPercentileRow(line) ==
  \E a \in 2..Len(line) :
    /\ Char(line, a) = "%"
    /\ IsPercentileNumber(SubSeq(line, 1, a - 1))
    /\ \E b \in a + 1..Len(line) :
         /\ AllIn(line, a + 1, b, Whitespace)
         /\ \E c \in b + 1..Len(line) :
              /\ IsLatencyNumber(SubSeq(line, b + 1, c))
              /\ \E d \in c + 1..Len(line) :
                   /\ AllIn(line, c + 1, d, Whitespace)
                   /\ LitAt(line, d + 1, "sec")

(* C5: the lines that give an observation are exactly those of the shape   *)
(* number, "%", whitespace, number with fraction, whitespace, "sec"; an     *)
(* integer percentile is accepted, and "50% 0.01sec", "abc% 0.013 sec."     *)
(* and a latency without fraction give no observation and no failure.       *)
C5_RowShape ==
  Called =>
    LET lines == TestedLines(text)
    IN  /\ ret.kind = "DataFrame"
        /\ Len(ret.rows) = Cardinality({k \in 1..Len(lines) : IsPercentileRow(lines[k])})
        /\ (text = "50%   0.013 sec." => Len(ret.rows) = 1)
        /\ (text \in {"50% 0.01sec", "abc% 0.013 sec.", "50% 1 sec"} => ret.rows = <<>>)

C5_Witness ==
  /\ Called
  /\ text = "50% 0.01sec\n50%   0.013 sec.\n50% 1 sec"
  /\ Len(ret.rows) = 1
  /\ ret.rows[1] = [percentile |-> ToFloat("50.0"), latency |-> ToFloat("0.013")]

(* C6 as stated: every observation has a percentile in [0, 100] and a      *)
(* latency that is not negative.                                           *)
C6_PercentileInRange ==
  Called =>
    \A i \in 1..Len(ret.rows) :
       /\ NonNegative(ret.rows[i].percentile)
       /\ AtMost100(ret.rows[i].percentile)
       /\ NonNegative(ret.rows[i].latency)

(* C6, amended: every observation has a percentile and a latency that are  *)
(* not negative; the percentile is whatever number the row gives, above    *)
(* 100 included.                                                           *)
C6_NotNegative ==
  Called =>
    \A i \in 1..Len(ret.rows) :
       /\ ret.rows[i].percentile.kind = "float"
       /\ ret.rows[i].latency.kind = "float"
       /\ NonNegative(ret.rows[i].percentile)
       /\ NonNegative(ret.rows[i].latency)

C6_Witness ==
  /\ Called
  /\ Len(ret.rows) = 3
  /\ ret.rows[2].percentile = ToFloat("150")
  /\ ~AtMost100(ret.rows[2].percentile)
  /\ AtMost100(ret.rows[3].percentile)

(* C10 as stated: the observations of A, newline, B are those of A         *)
(* followed by those of B, for every way of cutting the text at a newline, *)
(* and blank lines added at the start or the end change nothing.           *)
C10_LinesIndependentOfPosition ==
  Called =>
    LET ls == Lines(text)
    IN  /\ \A k \in 1..Len(ls) - 1 :
             ret.rows =
               parse_benchmark_output(Join(SubSeq(ls, 1, k), "\n")).rows \o
               parse_benchmark_output(Join(SubSeq(ls, k + 1, Len(ls)), "\n")).rows
        /\ ret = parse_benchmark_output("\n" \o text)
        /\ ret = parse_benchmark_output(text \o "\n\n")

BeginsWithWhitespace(s) == Len(s) > 0 /\ Char(s, 1) \in Whitespace

(* C10, amended: the same, for the cuts where B does not begin with        *)
(* whitespace or A is blank; the text is trimmed as a whole, so a row      *)
(* indented at the start of B is a row of B alone and no row after A.      *)
C10_LinesIndependentUnlessIndented ==
  Called =>
    LET ls == Lines(text)
    IN  /\ \A k \in 1..Len(ls) - 1 :
             LET A == Join(SubSeq(ls, 1, k), "\n")
                 B == Join(SubSeq(ls, k + 1, Len(ls)), "\n")
             IN  (Strip(A) = "" \/ ~BeginsWithWhitespace(B)) =>
                   ret.rows = parse_benchmark_output(A).rows \o
                              parse_benchmark_output(B).rows
        /\ ret = parse_benchmark_output("\n" \o text)
        /\ ret = parse_benchmark_output(text \o "\n\n")

C10_Witness ==
  /\ Called
  /\ text = "99.990%    0.024 sec.\nabc% 0.013 sec.\n50%   0.013 sec."
  /\ Len(ret.rows) = 2
  /\ Len(parse_benchmark_output("99.990%    0.024 sec.").rows) = 1
  /\ Len(parse_benchmark_output("abc% 0.013 sec.\n50%   0.013 sec.").rows) = 1

---------------------------------------------------------------------------
(* Properties of main *)

BothStatusParsed == status_data1.kind = "dict" /\ status_data2.kind = "dict"

LatencyItems == {"latency_distribution_chart", "metric", "summary_bar_chart"}

(* C8: when both status lines parse and one text gives no percentile row,  *)
(* the run ends without an error and shows no latency chart or statistic.  *)
C8_EmptyTableHandled ==
  (BothStatusParsed /\ (df1.rows = <<>> \/ df2.rows = <<>>)) =>
     /\ error = None
     /\ \A j \in 1..Len(rendered) : rendered[j].item \notin LatencyItems

Frame(query) == IF query = 1 THEN df1 ELSE df2

StagesAfter(query) ==
  IF query = 1
  THEN {"statistics2", "summary_chart", "raw_data", "done"}
  ELSE {"summary_chart", "raw_data", "done"}

(* The statistics of the query have been computed, to the end or to an     *)
(* exception.                                                              *)
StatisticsRan(query) ==
  \/ BothStatusParsed /\ pc \in StagesAfter(query)
  \/ pc = (IF query = 1 THEN "statistics1" ELSE "statistics2") /\ error # None

RowsAt(df, percentile) ==
  {i \in 1..Len(df.rows) : df.rows[i].percentile = percentile}

FirstLatency(df, percentile) ==
  LET at == RowsAt(df, percentile)
  IN  df.rows[CHOOSE i \in at : \A j \in at : i <= j].latency

(* C9: for each key percentile, the statistic shown and the bar drawn are  *)
(* the latency of the first row with that percentile; when no row has it,  *)
(* the run ends in an exception and nothing is shown for it.               *)
C9_FirstRowOrError ==
  /\ \A query \in {1, 2} :
       \A k \in 1..Len(KEY_PERCENTILES) :
          LET percentile == KEY_PERCENTILES[k]
              df    == Frame(query)
              shown == {j \in 1..Len(rendered) :
                          /\ rendered[j].item = "metric"
                          /\ rendered[j].query = query
                          /\ rendered[j].percentile = percentile}
          IN  /\ \A j \in shown :
                   /\ RowsAt(df, percentile) # {}
                   /\ rendered[j].value = FirstLatency(df, percentile)
              /\ (StatisticsRan(query) /\ RowsAt(df, percentile) = {}) =>
                   (IsRaise(error) /\ shown = {})
              /\ (StatisticsRan(query) /\ error = None) => Cardinality(shown) = 1
  /\ \A j \in 1..Len(rendered) :
       rendered[j].item = "summary_bar_chart" =>
          /\ Len(rendered[j].bars) = Len(KEY_PERCENTILES)
          /\ \A k \in 1..Len(rendered[j].bars) :
               LET bar == rendered[j].bars[k]
               IN  /\ bar.percentile = KEY_PERCENTILES[k]
                   /\ bar.query1 = FirstLatency(df1, bar.percentile)
                   /\ bar.query2 = FirstLatency(df2, bar.percentile)

C9_Witness ==
  /\ pc = "done"
  /\ error = None
  /\ \E j \in 1..Len(rendered) : rendered[j].item = "summary_bar_chart"
  /\ \E i, j \in 1..Len(df1.rows) :
       /\ i < j
       /\ df1.rows[i].percentile = KEY_PERCENTILES[1]
       /\ df1.rows[j].percentile = KEY_PERCENTILES[1]
       /\ df1.rows[i].latency # df1.rows[j].latency

====
